---- MODULE Spec2Model ----
(***************************************************************************)
(* A model of ll (src/src/main.rs): configuration merge, icon resolution,  *)
(* the ignore filter and entry renderer of show_entries, and the column    *)
(* layout of display_in_columns.                                           *)
(*                                                                         *)
(* Strings are sequences of characters; a character is a one-token TLA+    *)
(* string ("a", ".", "ESC", a glyph such as "ea7b").  A HashMap is a       *)
(* function whose DOMAIN is its key set.  An Option is a record with an    *)
(* "ok" (Some/Ok) flag.                                                    *)
(***************************************************************************)
EXTENDS Integers, Sequences, FiniteSets, TLC

VARIABLES
    pc,                 \* position of the running function
    \* get_config
    default_config,     \* the parsed built-in document (main.rs:355)
    config_file_exists, \* config_file.exists() (main.rs:358)
    custom_config,      \* the parsed user document, an OptionalConfig
    config,             \* the Config in use
    \* resolve_icon
    icons, aliases, fallback, queries, icon,
    \* show_entries
    cmd,                \* [all, single_column]
    color_on,           \* supports_color::on(Stdout) is Some
    paths,              \* the glob's result: <<[name, metadata]>>
    entries,            \* Vec<Entry>
    calls,              \* per list item, the format_with_color calls made
    list,               \* Vec<String>, the rendered lines
    \* display_in_columns
    term_size,          \* the result of terminal::size()
    term_width, max_item_len, col_width, cols, rows, row,
    out                 \* standard output, one sequence of cells per line

vars == <<pc, default_config, config_file_exists, custom_config, config,
          icons, aliases, fallback, queries, icon,
          cmd, color_on, paths, entries, calls, list,
          term_size, term_width, max_item_len, col_width, cols, rows, row, out>>

config_vars == <<default_config, config_file_exists, custom_config>>
icon_vars == <<icons, aliases, fallback, queries, icon>>
entry_vars == <<cmd, color_on, paths, entries, calls>>
layout_vars == <<term_size, term_width, max_item_len, col_width, cols, rows, row>>

(***************************************************************************)
(* Bounds                                                                  *)
(***************************************************************************)
MaxLen == 5        \* longest list handed to display_in_columns
MaxWidth == 12     \* widest terminal, besides WideTerminal
WideTerminal == 100
MaxQueries == 3    \* longest candidate list handed to resolve_icon
MaxPaths == 2      \* most paths in one listing

(***************************************************************************)
(* Arithmetic and sequence helpers                                         *)
(***************************************************************************)
max(a, b) == IF a >= b THEN a ELSE b

Range(s) == {s[i] : i \in 1..Len(s)}

SeqsUpTo(S, n) == UNION {[1..k -> S] : k \in 0..n}

SetMax(S) ==
    IF S = {} THEN 0
    ELSE LET x == CHOOSE x \in S : \A y \in S : x >= y IN x

(***************************************************************************)
(* Characters: ASCII order and case                                        *)
(***************************************************************************)
Upper == <<"A","B","C","D","E","F","G","H","I","J","K","L","M",
           "N","O","P","Q","R","S","T","U","V","W","X","Y","Z">>
Lower == <<"a","b","c","d","e","f","g","h","i","j","k","l","m",
           "n","o","p","q","r","s","t","u","v","w","x","y","z">>
Digits == <<"0","1","2","3","4","5","6","7","8","9">>

\* the characters in increasing code order; anything else (a glyph) sorts last
Ascii == <<"ESC", " ", ".", "/">> \o Digits \o <<";">> \o Upper \o <<"[">> \o Lower

Code(c) ==
    IF \E i \in 1..Len(Ascii) : Ascii[i] = c
    THEN CHOOSE i \in 1..Len(Ascii) : Ascii[i] = c
    ELSE Len(Ascii) + 1

to_lowercase_char(c) ==
    IF \E i \in 1..26 : Upper[i] = c
    THEN Lower[CHOOSE i \in 1..26 : Upper[i] = c]
    ELSE c

to_lowercase(s) == [i \in 1..Len(s) |-> to_lowercase_char(s[i])]

starts_with(s, c) == Len(s) > 0 /\ s[1] = c
ends_with(s, c) == Len(s) > 0 /\ s[Len(s)] = c

(***************************************************************************)
(* visible_length (main.rs:434-439): strip ESC [ [0-9;]* m, count the rest *)
(***************************************************************************)
IsParam(c) == c = ";" \/ \E i \in 1..10 : Digits[i] = c

\* the first position at or after j whose character is not a digit or ';'
RECURSIVE SkipParams(_, _)
SkipParams(s, j) ==
    IF j <= Len(s) /\ IsParam(s[j]) THEN SkipParams(s, j + 1) ELSE j

\* the position after the escape sequence starting at i, or 0 if none starts there
MatchEnd(s, i) ==
    IF i + 1 <= Len(s) /\ s[i] = "ESC" /\ s[i + 1] = "["
    THEN LET j == SkipParams(s, i + 2)
         IN IF j <= Len(s) /\ s[j] = "m" THEN j + 1 ELSE 0
    ELSE 0

RECURSIVE StripFrom(_, _)
StripFrom(s, i) ==
    IF i > Len(s) THEN <<>>
    ELSE IF MatchEnd(s, i) > 0 THEN StripFrom(s, MatchEnd(s, i))
    ELSE <<s[i]>> \o StripFrom(s, i + 1)

visible_length(input) == Len(StripFrom(input, 1))

(***************************************************************************)
(* format_with_color (main.rs:127-158)                                     *)
(***************************************************************************)
\* the palette index of a colour name; a name outside the palette is black
get_color_from_string(color_name) ==
    LET name == to_lowercase(color_name)
    IN CASE name = <<"r","e","d">> -> <<"9">>
         [] name = <<"g","r","e","e","n">> -> <<"1","0">>
         [] name = <<"b","l","u","e">> -> <<"1","2">>
         [] name = <<"g","r","e","y">> -> <<"7">>
         [] OTHER -> <<"0">>

\* message.with(color).to_string(): set the foreground, the text, reset it
with_color(message, code) ==
    <<"ESC","[","3","8",";","5",";">> \o code \o <<"m">> \o message
        \o <<"ESC","[","3","9","m">>

format_with_color(colors, supported, message, name) ==
    IF supported
    THEN LET color_name == IF name \in DOMAIN colors THEN colors[name]
                           ELSE <<"b","l","a","c","k">>
         IN with_color(message, get_color_from_string(color_name))
    ELSE message

(***************************************************************************)
(* display_in_columns (main.rs:391-432)                                    *)
(***************************************************************************)
col_gap == 2

MaxItemLen(l) == SetMax({visible_length(l[i]) : i \in 1..Len(l)})

TermWidth(size) == IF size.ok THEN size.width ELSE 1

\* mutant: the ceiling-style division of the other variant
NaiveCols_Ceil(tw, cw) == max(1, (tw + cw - 1) \div cw)

NaiveCols(tw, cw) == max(1, tw \div cw)

\* mutant: plain integer division
NaiveRows_Floor(n, c) == max(1, n \div c)

NaiveRows(n, c) == max(1, (n + c - 1) \div c)

\* mutant: the collapse resets the rows only
CollapsedCols_Kept(r, c) == c

CollapsedCols(r, c) == IF r = 1 THEN 1 ELSE c

CollapsedRows(r, n) == IF r = 1 THEN n ELSE r

\* mutant: row-major fill
CellIndex_RowMajor(r, c, nrows, ncols) == r * ncols + c

CellIndex(r, c, nrows, ncols) == c * nrows + r

\* mutant: the gap counted twice
Padding_GapTwice(cw, value_len) == cw + col_gap - value_len

Padding(cw, value_len) == cw - value_len

\* the cells print!ed in row r, columns c..ncols-1
RECURSIVE RowCells(_, _, _, _, _, _)
RowCells(l, r, c, nrows, ncols, cw) ==
    IF c >= ncols THEN <<>>
    ELSE LET index == CellIndex(r, c, nrows, ncols)
             rest == RowCells(l, r, c + 1, nrows, ncols, cw)
         IN IF index < Len(l)
            THEN <<[col |-> c, index |-> index, value |-> l[index + 1],
                    padding |-> Padding(cw, visible_length(l[index + 1]))]>> \o rest
            ELSE rest

\* main.rs:392-410
dc_measure ==
    /\ pc = "display_in_columns"
    /\ max_item_len' = MaxItemLen(list)
    /\ term_width' = TermWidth(term_size)
    /\ col_width' = max_item_len' + col_gap
    /\ cols' = NaiveCols(term_width', col_width')
    /\ rows' = NaiveRows(Len(list), cols')
    /\ pc' = "collapse"
    /\ UNCHANGED <<config_vars, config, icon_vars, entry_vars, list, term_size, row, out>>

\* main.rs:412-415, and the entry of the loop at 417
dc_collapse ==
    /\ pc = "collapse"
    /\ cols' = CollapsedCols(rows, cols)
    /\ rows' = CollapsedRows(rows, Len(list))
    /\ row' = 0
    /\ pc' = IF rows' = 0 THEN "done" ELSE "rows"
    /\ UNCHANGED <<config_vars, config, icon_vars, entry_vars, list, term_size,
                   term_width, max_item_len, col_width, out>>

\* main.rs:417-431, one iteration of the outer loop
dc_print_row ==
    /\ pc = "rows"
    /\ row < rows
    /\ out' = Append(out, RowCells(list, row, 0, rows, cols, col_width))
    /\ row' = row + 1
    /\ pc' = IF row' = rows THEN "done" ELSE "rows"
    /\ UNCHANGED <<config_vars, config, icon_vars, entry_vars, list, term_size,
                   term_width, max_item_len, col_width, cols, rows>>

(***************************************************************************)
(* resolve_icon (main.rs:160-181)                                          *)
(***************************************************************************)
\* mutant: the loop without its break, the last match wins
RECURSIVE FirstMatch_NoBreak(_, _, _)
FirstMatch_NoBreak(table, current, qs) ==
    IF qs = <<>> THEN current
    ELSE FirstMatch_NoBreak(table,
             IF Head(qs) \in DOMAIN table THEN table[Head(qs)] ELSE current,
             Tail(qs))

\* main.rs:166-173: the value of the first query that is a key, else `current`
RECURSIVE FirstMatch(_, _, _)
FirstMatch(table, current, qs) ==
    IF qs = <<>> THEN current
    ELSE IF Head(qs) \in DOMAIN table THEN table[Head(qs)]
    ELSE FirstMatch(table, current, Tail(qs))

\* mutant: the alias of an alias is resolved too
AliasHop_TwoLevels(al, g) ==
    IF g \in DOMAIN al
    THEN (IF al[g] \in DOMAIN al THEN al[al[g]] ELSE al[g])
    ELSE g

\* main.rs:175-178
AliasHop(al, g) == IF g \in DOMAIN al THEN al[g] ELSE g

resolve_icon(table, al, fb, qs) == AliasHop(al, FirstMatch(table, fb, qs))

\* main.rs:166-173
ri_scan ==
    /\ pc = "resolve_icon"
    /\ icon' = FirstMatch(icons, fallback, queries)
    /\ pc' = "alias"
    /\ UNCHANGED <<config_vars, config, icons, aliases, fallback, queries,
                   entry_vars, list, layout_vars, out>>

\* main.rs:175-180
ri_alias ==
    /\ pc = "alias"
    /\ icon' = AliasHop(aliases, icon)
    /\ pc' = "done"
    /\ UNCHANGED <<config_vars, config, icons, aliases, fallback, queries,
                   entry_vars, list, layout_vars, out>>

(***************************************************************************)
(* Paths and metadata                                                      *)
(***************************************************************************)
\* Path::extension, unwrap_or_default: the part after the last '.', unless the
\* name has no '.' or its only '.' is the first character
Extension(name) ==
    LET dots == {i \in 1..Len(name) : name[i] = "."}
    IN IF dots = {} THEN <<>>
       ELSE LET i == SetMax(dots)
            IN IF i = 1 THEN <<>> ELSE SubSeq(name, i + 1, Len(name))

\* format!(".{ext}") of the lowercased extension
DottedExt(name) == <<".">> \o to_lowercase(Extension(name))

\* bytewise order of two strings
RECURSIVE LexLess(_, _)
LexLess(a, b) ==
    IF b = <<>> THEN FALSE
    ELSE IF a = <<>> THEN TRUE
    ELSE IF Code(Head(a)) # Code(Head(b)) THEN Code(Head(a)) < Code(Head(b))
    ELSE LexLess(Tail(a), Tail(b))

\* mode & 0o111 != 0
is_executable(metadata) ==
    \E bit \in {1, 8, 64} : (metadata.mode \div bit) % 2 = 1

\* ByteSize::b(n).to_string().replace(' ', ""), for a size below ten bytes
SizeText(n) == <<Digits[n + 1], "B">>

(***************************************************************************)
(* ignore_entry (main.rs:467-497): TRUE when the entry is to be listed     *)
(***************************************************************************)
\* mutant: the basename compared as it is spelled
ignore_entry_CaseSensitive(entry, folders, files) ==
    LET basename == entry.name
        extname == DottedExt(entry.name)
    IN IF entry.metadata.ok
       THEN IF entry.metadata.is_dir
            THEN ~(basename \in Range(folders))
            ELSE ~(basename \in Range(files) \/ extname \in Range(files))
       ELSE ~(\/ basename \in Range(files)
              \/ extname \in Range(files)
              \/ basename \in Range(folders))

ignore_entry(entry, folders, files) ==
    LET basename == to_lowercase(entry.name)
        extname == DottedExt(entry.name)
    IN IF entry.metadata.ok
       THEN IF entry.metadata.is_dir
            THEN ~(basename \in Range(folders))
            ELSE ~(basename \in Range(files) \/ extname \in Range(files))
       ELSE ~(\/ basename \in Range(files)
              \/ extname \in Range(files)
              \/ basename \in Range(folders))

(***************************************************************************)
(* build_file_entry (main.rs:183-236), build_dir_entry (main.rs:238-269)   *)
(* and the dead-link line (main.rs:311-321).  Each yields the              *)
(* format_with_color calls of the line, <<[message, name]>>.               *)
(***************************************************************************)
FileFallback == <<"ea7b">>
FolderFallback == <<"e5ff">>
DeadLinkGlyph == <<"f481">>
KeyFile == <<"f","i","l","e">>
KeyFolder == <<"f","o","l","d","e","r">>

\* mutant: the leading dot tested before the permission bits
FileColorType_HiddenFirst(basename, metadata) ==
    IF starts_with(basename, ".") THEN "hidden"
    ELSE IF is_executable(metadata) THEN "executable_file"
    ELSE "file"

\* main.rs:220-226
FileColorType(basename, metadata) ==
    IF is_executable(metadata) THEN "executable_file"
    ELSE IF starts_with(basename, ".") THEN "hidden"
    ELSE "file"

\* main.rs:260-264
DirColorType(basename) ==
    IF starts_with(basename, ".") THEN "hidden_dir" ELSE "dir"

\* the path is relative to its own directory: dirname is ""
build_file_entry(cfg, metadata, basename) ==
    LET file_icon == resolve_icon(cfg.files, cfg.aliases, FileFallback,
                        << <<"/">> \o basename, basename, DottedExt(basename), KeyFile >>)
    IN << [message |-> <<" ", " ">> \o file_icon \o <<" ">> \o basename,
           name |-> FileColorType(basename, metadata)],
          [message |-> SizeText(metadata.size), name |-> "file_size"] >>

build_dir_entry(cfg, basename) ==
    LET dir_icon == resolve_icon(cfg.folders, cfg.aliases, FolderFallback,
                        << basename, DottedExt(basename), KeyFolder >>)
    IN << [message |-> <<" ", " ">> \o dir_icon \o <<" ">> \o basename \o <<"/">>,
           name |-> DirColorType(basename)] >>

dead_link_entry(relative_path) ==
    << [message |-> <<" ", " ">> \o DeadLinkGlyph \o <<" ">> \o relative_path,
        name |-> "dead_link"] >>

\* main.rs:311-327
RenderCalls(cfg, entry) ==
    IF ~entry.metadata.ok THEN dead_link_entry(entry.name)
    ELSE IF entry.metadata.is_dir THEN build_dir_entry(cfg, entry.name)
    ELSE build_file_entry(cfg, entry.metadata, entry.name)

\* the line of an entry: its coloured parts joined by one space
RECURSIVE JoinCalls(_, _, _)
JoinCalls(colors, supported, cs) ==
    IF cs = <<>> THEN <<>>
    ELSE format_with_color(colors, supported, Head(cs).message, Head(cs).name)
            \o (IF Len(cs) > 1 THEN <<" ">> ELSE <<>>)
            \o JoinCalls(colors, supported, Tail(cs))

(***************************************************************************)
(* show_entries (main.rs:271-339)                                          *)
(***************************************************************************)
RECURSIVE FilterPaths(_, _, _, _)
\* the entries of ps that pass both filters of main.rs:295-296
FilterPaths(ps, all, folders, files) ==
    IF ps = <<>> THEN <<>>
    ELSE LET keep == /\ ~ends_with(Head(ps).name, ".")
                     /\ (all \/ ignore_entry(Head(ps), folders, files))
         IN (IF keep THEN <<Head(ps)>> ELSE <<>>)
                \o FilterPaths(Tail(ps), all, folders, files)

SortKey(entry) == to_lowercase(entry.name)

\* x placed after every element whose key is not greater: a stable insertion
RECURSIVE InsertSorted(_, _)
InsertSorted(sorted, x) ==
    IF sorted = <<>> THEN <<x>>
    ELSE IF LexLess(SortKey(x), SortKey(Head(sorted))) THEN <<x>> \o sorted
    ELSE <<Head(sorted)>> \o InsertSorted(Tail(sorted), x)

RECURSIVE SortByKey(_)
SortByKey(es) ==
    IF es = <<>> THEN <<>>
    ELSE InsertSorted(SortByKey(SubSeq(es, 1, Len(es) - 1)), es[Len(es)])

AfterRender == IF cmd.single_column THEN "single_column" ELSE "display_in_columns"

\* main.rs:272-297
se_collect ==
    /\ pc = "show_entries"
    /\ entries' = FilterPaths(paths, cmd.all,
                             [i \in 1..Len(config.ignore.folders) |->
                                 to_lowercase(config.ignore.folders[i])],
                             [i \in 1..Len(config.ignore.files) |->
                                 to_lowercase(config.ignore.files[i])])
    /\ pc' = "sort"
    /\ UNCHANGED <<config_vars, config, icon_vars, cmd, color_on, paths, calls,
                   list, layout_vars, out>>

\* main.rs:299-306
se_sort ==
    /\ pc = "sort"
    /\ entries' = SortByKey(entries)
    /\ pc' = IF entries = <<>> THEN AfterRender ELSE "render"
    /\ UNCHANGED <<config_vars, config, icon_vars, cmd, color_on, paths, calls,
                   list, layout_vars, out>>

\* main.rs:308-330, one iteration
se_render ==
    /\ pc = "render"
    /\ Len(list) < Len(entries)
    /\ LET cs == RenderCalls(config, entries[Len(list) + 1])
       IN /\ calls' = Append(calls, cs)
          /\ list' = Append(list, JoinCalls(config.colors, color_on, cs))
    /\ pc' = IF Len(list') = Len(entries) THEN AfterRender ELSE "render"
    /\ UNCHANGED <<config_vars, config, icon_vars, cmd, color_on, paths, entries,
                   layout_vars, out>>

\* main.rs:332-335
se_print_single ==
    /\ pc = "single_column"
    /\ out' = [i \in 1..Len(list) |->
                  <<[col |-> 0, index |-> i - 1, value |-> list[i], padding |-> 0]>>]
    /\ pc' = "done"
    /\ UNCHANGED <<config_vars, config, icon_vars, entry_vars, list, layout_vars>>

(***************************************************************************)
(* get_config (main.rs:353-389)                                            *)
(***************************************************************************)
\* mutant: the override table taken whole, as the ignore lists are
Extend_Replace(base, extra) == extra

\* HashMap::extend: every pair of extra inserted into base
Extend(base, extra) ==
    [k \in (DOMAIN base) \cup (DOMAIN extra) |->
        IF k \in DOMAIN extra THEN extra[k] ELSE base[k]]

\* Option::unwrap_or_default of a table
UnwrapOrDefault(opt) == IF opt.ok THEN opt.value ELSE <<>>

\* main.rs:377-385
MergeIgnore(base, custom) ==
    [k \in DOMAIN base |-> IF k \in DOMAIN custom THEN custom[k] ELSE base[k]]

\* main.rs:354-356
gc_load_default ==
    /\ pc = "get_config"
    /\ config' = default_config
    /\ pc' = IF config_file_exists THEN "custom" ELSE "configured"
    /\ UNCHANGED <<config_vars, icon_vars, entry_vars, list, layout_vars, out>>

\* main.rs:358-386
gc_merge_custom ==
    /\ pc = "custom"
    /\ config' = [folders |-> Extend(config.folders, UnwrapOrDefault(custom_config.folders)),
                  files |-> Extend(config.files, UnwrapOrDefault(custom_config.files)),
                  colors |-> Extend(config.colors, UnwrapOrDefault(custom_config.colors)),
                  aliases |-> Extend(config.aliases, UnwrapOrDefault(custom_config.aliases)),
                  ignore |-> MergeIgnore(config.ignore, UnwrapOrDefault(custom_config.ignore))]
    /\ pc' = "configured"
    /\ UNCHANGED <<config_vars, icon_vars, entry_vars, list, layout_vars, out>>

(***************************************************************************)
(* Values of the variables a specification does not use                    *)
(***************************************************************************)
NoTable == <<>>
NoConfig == [aliases |-> NoTable, folders |-> NoTable, files |-> NoTable,
             colors |-> NoTable,
             ignore |-> [folders |-> <<>>, files |-> <<>>]]
NoOptionalConfig == [aliases |-> [ok |-> FALSE, value |-> NoTable],
                     folders |-> [ok |-> FALSE, value |-> NoTable],
                     files |-> [ok |-> FALSE, value |-> NoTable],
                     colors |-> [ok |-> FALSE, value |-> NoTable],
                     ignore |-> [ok |-> FALSE, value |-> NoTable]]

ConfigIdle ==
    /\ default_config = NoConfig
    /\ config_file_exists = FALSE
    /\ custom_config = NoOptionalConfig

IconIdle ==
    /\ icons = NoTable /\ aliases = NoTable
    /\ fallback = <<>> /\ queries = <<>> /\ icon = <<>>

EntriesIdle ==
    /\ cmd = [all |-> FALSE, single_column |-> FALSE]
    /\ color_on = FALSE
    /\ paths = <<>> /\ entries = <<>> /\ calls = <<>>

LayoutIdle ==
    /\ term_width = 0 /\ max_item_len = 0 /\ col_width = 0
    /\ cols = 0 /\ rows = 0 /\ row = 0

(***************************************************************************)
(* display_in_columns on any list of rendered lines                        *)
(***************************************************************************)
DemoColors == [c \in {"file"} |-> <<"R","e","d">>]

\* rendered lines of visible length 1, 2 and 5; the last as build_file_entry
\* composes it, a coloured name and a coloured size
Lines ==
    { format_with_color(DemoColors, TRUE, <<"a">>, "file"),
      <<"a","b">>,
      format_with_color(DemoColors, TRUE, <<"a","b">>, "file") \o <<" ">>
          \o format_with_color(DemoColors, TRUE, <<"0","B">>, "file_size") }

TermSizes ==
    {[ok |-> FALSE, width |-> 0]}
        \cup {[ok |-> TRUE, width |-> w] : w \in (0..MaxWidth) \cup {WideTerminal}}

InitLayout ==
    /\ pc = "display_in_columns"
    /\ ConfigIdle /\ config = NoConfig /\ IconIdle /\ EntriesIdle /\ LayoutIdle
    /\ list \in SeqsUpTo(Lines, MaxLen)
    /\ term_size \in TermSizes
    /\ out = <<>>

NextLayout == dc_measure \/ dc_collapse \/ dc_print_row

SpecLayout == InitLayout /\ [][NextLayout]_vars

(***************************************************************************)
(* resolve_icon on any table, alias map, fallback and candidate list       *)
(***************************************************************************)
PartialFns(K, V) == UNION {[D -> V] : D \in SUBSET K}

IconKeys == {<<"A">>, <<"B">>, <<"C">>}
GlyphX == <<"X">>
GlyphY == <<"Y">>
GlyphZ == <<"Z">>

InitIcon ==
    /\ pc = "resolve_icon"
    /\ ConfigIdle /\ config = NoConfig /\ EntriesIdle /\ LayoutIdle
    /\ list = <<>> /\ term_size = [ok |-> FALSE, width |-> 0] /\ out = <<>>
    /\ icons \in PartialFns(IconKeys, {GlyphX, GlyphY})
    /\ aliases \in PartialFns({GlyphX, GlyphY}, {GlyphX, GlyphY, GlyphZ})
    /\ fallback \in {GlyphX, GlyphZ}
    /\ queries \in SeqsUpTo(IconKeys, MaxQueries)
    /\ icon = <<>>

NextIcon == ri_scan \/ ri_alias

SpecIcon == InitIcon /\ [][NextIcon]_vars

(***************************************************************************)
(* get_config on a built-in document and any user document                 *)
(***************************************************************************)
KeyExt == <<".", "l">>
ValDefault == <<"u">>
ValCustom == <<"v">>

\* the built-in document: the fallback keys, with or without one more key
DefaultTables ==
    {[k \in D |-> ValDefault] : D \in {{KeyFile, KeyFolder}, {KeyFile, KeyFolder, KeyExt}}}

DefaultConfigs ==
    {[aliases |-> t, folders |-> t, files |-> t, colors |-> t,
      ignore |-> [folders |-> << <<"n","m">> >>, files |-> << <<".","l">> >>]] :
        t \in DefaultTables}

\* a table of the user document: absent, or any table that replaces the key
\* "file" and adds the key ".l", or not
CustomTables ==
    {[ok |-> FALSE, value |-> NoTable]}
        \cup {[ok |-> TRUE, value |-> t] : t \in PartialFns({KeyFile, KeyExt}, {ValCustom})}

CustomIgnores ==
    {[ok |-> FALSE, value |-> NoTable]}
        \cup {[ok |-> TRUE, value |-> [k \in D |-> << <<"t","m","p">> >>]] :
                D \in SUBSET {"folders", "files"}}

InitConfig ==
    /\ pc = "get_config"
    /\ IconIdle /\ EntriesIdle /\ LayoutIdle
    /\ list = <<>> /\ term_size = [ok |-> FALSE, width |-> 0] /\ out = <<>>
    /\ default_config \in DefaultConfigs
    /\ config_file_exists \in BOOLEAN
    /\ custom_config \in [aliases : CustomTables, folders : CustomTables,
                          files : CustomTables, colors : CustomTables,
                          ignore : CustomIgnores]
    /\ config = NoConfig

NextConfig == gc_load_default \/ gc_merge_custom

SpecConfig == InitConfig /\ [][NextConfig]_vars

(***************************************************************************)
(* show_entries on a directory listing                                     *)
(***************************************************************************)
NoMetadata == [ok |-> FALSE, is_dir |-> FALSE, mode |-> 0, size |-> 0]

\* fs::metadata of a path: an error, a directory, a plain file (0o644), an
\* executable file (0o755)
Metadatas ==
    { NoMetadata,
      [ok |-> TRUE, is_dir |-> TRUE, mode |-> 493, size |-> 0],
      [ok |-> TRUE, is_dir |-> FALSE, mode |-> 420, size |-> 0],
      [ok |-> TRUE, is_dir |-> FALSE, mode |-> 493, size |-> 5] }

NameNm == <<"N","m">>
NameHidden == <<".","h">>
NameLog == <<"a",".","L">>
NameDot == <<"b",".">>
NameNmLower == <<"n","m">>
Names == {NameNm, NameHidden, NameLog, NameDot, NameNmLower}

\* glob yields distinct paths in alphabetical order
IsListing(ps) ==
    \A i \in 1..(Len(ps) - 1) : LexLess(ps[i].name, ps[i + 1].name)

Listings ==
    {ps \in SeqsUpTo([name : Names, metadata : Metadatas], MaxPaths) : IsListing(ps)}

EntryTables ==
    [aliases |-> (<<"l","o","g">> :> <<"f18d">>),
     folders |-> (KeyFolder :> <<"e5ff">>) @@ (NameNm :> <<"e718">>),
     files |-> (KeyFile :> <<"ea7b">>) @@ (KeyExt :> <<"l","o","g">>),
     colors |-> ("dir" :> <<"B","l","u","e">>) @@ ("file" :> <<"g","r","e","y">>)
                   @@ ("dead_link" :> <<"r","e","d">>)]

\* the ignore lists, as the user may spell them
IgnoreFolders == { <<>>, << <<"N","M">>, <<".","l">> >> }
IgnoreFiles == { <<>>, << <<"n","m">>, <<".","L">> >> }

EntryConfigs ==
    {[aliases |-> EntryTables.aliases, folders |-> EntryTables.folders,
      files |-> EntryTables.files, colors |-> EntryTables.colors,
      ignore |-> [folders |-> fo, files |-> fi]] :
        fo \in IgnoreFolders, fi \in IgnoreFiles}

InitEntries ==
    /\ pc = "show_entries"
    /\ ConfigIdle /\ IconIdle /\ LayoutIdle
    /\ config \in EntryConfigs
    /\ cmd \in [all : BOOLEAN, single_column : BOOLEAN]
    /\ color_on \in BOOLEAN
    /\ paths \in Listings
    /\ entries = <<>> /\ calls = <<>> /\ list = <<>>
    /\ term_size \in {[ok |-> FALSE, width |-> 0], [ok |-> TRUE, width |-> WideTerminal]}
    /\ out = <<>>

NextEntries ==
    \/ se_collect \/ se_sort \/ se_render \/ se_print_single
    \/ dc_measure \/ dc_collapse \/ dc_print_row

SpecEntries == InitEntries /\ [][NextEntries]_vars

(***************************************************************************)
(* Properties of display_in_columns                                        *)
(***************************************************************************)
\* floor and ceiling of n / d, stated without \div
Floor(n, d) == CHOOSE q \in 0..n : q * d <= n /\ n < (q + 1) * d
Ceil(n, d) == CHOOSE q \in 0..n : q * d >= n /\ (q = 0 \/ (q - 1) * d < n)

RECURSIVE RowWidth(_)
RowWidth(cells) ==
    IF cells = <<>> THEN 0
    ELSE visible_length(Head(cells).value) + Head(cells).padding + RowWidth(Tail(cells))

Printing == pc \in {"rows", "done"}

\* C1: the cell printed at (row, col) is the list entry col * rows + row; a cell
\* whose index is at or beyond list_len prints nothing; rows and columns are
\* printed in increasing order.
C1_ColumnMajor ==
    Printing =>
        /\ pc = "done" => Len(out) = rows
        /\ \A r \in 1..Len(out) :
            LET populated == {c \in 0..(cols - 1) : c * rows + (r - 1) < Len(list)}
            IN /\ Len(out[r]) = Cardinality(populated)
               /\ \A k \in 1..Len(out[r]) :
                    /\ out[r][k].col \in populated
                    /\ out[r][k].index = out[r][k].col * rows + (r - 1)
                    /\ out[r][k].value = list[out[r][k].col * rows + (r - 1) + 1]
               /\ \A k \in 1..(Len(out[r]) - 1) : out[r][k].col < out[r][k + 1].col

\* 5 entries in 2 columns x 3 rows: entries 0,1,2 | 3,4 and (row 2, col 1) empty
C1_Witness ==
    /\ pc = "done" /\ Len(list) = 5 /\ cols = 2 /\ rows = 3
    /\ Len(out) = 3
    /\ Len(out[1]) = 2 /\ out[1][1].index = 0 /\ out[1][2].index = 3
    /\ Len(out[2]) = 2 /\ out[2][1].index = 1 /\ out[2][2].index = 4
    /\ Len(out[3]) = 1 /\ out[3][1].index = 2

OnePerLine ==
    /\ Len(out) = Len(list)
    /\ \A r \in 1..Len(out) :
        Len(out[r]) = 1 /\ out[r][1].index = r - 1 /\ out[r][1].value = list[r]

\* C2: whenever the naive grid has one row, the layout is forced to cols = 1 and
\* rows = list_len, and the entries are then printed one per line in list order.
C2_Collapse ==
    [][ /\ (pc = "collapse" /\ rows = 1) =>
            (cols' = 1 /\ rows' = Len(list) /\ (rows' > 0 => pc' = "rows"))
        /\ (pc' = "done" /\ cols' = 1) => OnePerLine' ]_vars

\* 3 entries, col_width 4, terminal width 100: 3 rows of 1 column
C2_Witness ==
    /\ pc = "done" /\ Len(list) = 3 /\ col_width = 4 /\ term_width = 100
    /\ cols = 1 /\ rows = 3 /\ OnePerLine

MeasuredBeforeCollapse ==
    /\ max_item_len = SetMax({visible_length(list[i]) : i \in 1..Len(list)})
    /\ (list = <<>> => max_item_len = 0)
    /\ col_width = max_item_len + 2
    /\ cols = max(1, Floor(term_width, col_width))

\* C3 as stated: before the collapse rule, rows = ceil(list_len / cols).
C3_Original ==
    pc = "collapse" => MeasuredBeforeCollapse /\ rows = Ceil(Len(list), cols)

\* C3, amended: before the collapse rule, max_item_len is the greatest visible
\* length (0 for an empty list), col_width = max_item_len + 2,
\* cols = max(1, floor(terminal_width / col_width)), and
\* rows = max(1, ceil(list_len / cols)): 1, not 0, for an empty list.
C3_Measure ==
    pc = "collapse" =>
        MeasuredBeforeCollapse /\ rows = max(1, Ceil(Len(list), cols))

\* a width where floor and ceiling division differ, and a last column left short
C3_Witness ==
    /\ pc = "collapse" /\ Len(list) = 5 /\ term_width = 11 /\ col_width = 4
    /\ cols = 2 /\ rows = 3

\* C4: with more than one column, no printed row is wider than the terminal.
C4_WithinTerminal ==
    (Printing /\ cols > 1) => \A r \in 1..Len(out) : RowWidth(out[r]) <= term_width

\* a full row that fills the terminal exactly
C4_Witness ==
    /\ pc = "done" /\ cols > 1
    /\ \E r \in 1..Len(out) : Len(out[r]) = cols /\ RowWidth(out[r]) = term_width

PrintedCells == UNION {{<<r, k>> : k \in 1..Len(out[r])} : r \in 1..Len(out)}

\* C10: every list index is emitted in exactly one cell, every printed row holds
\* at least one entry, and an empty list prints no rows.
C10_NoLossNoDuplicate ==
    pc = "done" =>
        /\ \A i \in 0..(Len(list) - 1) :
            Cardinality({rk \in PrintedCells : out[rk[1]][rk[2]].index = i}) = 1
        /\ \A r \in 1..Len(out) :
            /\ Len(out[r]) >= 1
            /\ \A k \in 1..Len(out[r]) : out[r][k].index \in 0..(Len(list) - 1)
        /\ (list = <<>> => out = <<>>)

\* a terminal narrower than one column, the fallback width, and a grid whose
\* last column is short
C10_Witness ==
    /\ pc = "done" /\ Len(list) = 5 /\ cols = 3 /\ rows = 2
    /\ Len(out) = 2 /\ Len(out[1]) = 3 /\ Len(out[2]) = 2

(***************************************************************************)
(* Properties of resolve_icon                                              *)
(***************************************************************************)
Hits == {i \in 1..Len(queries) : queries[i] \in DOMAIN icons}

\* C5: before alias resolution the glyph is the table value of the first
\* candidate, in list order, that is a key of the table, whatever later
\* candidates match; with no such candidate it is the fallback glyph.  A glyph
\* is always returned.
C5_FirstMatchWins ==
    /\ pc = "alias" =>
        IF Hits = {}
        THEN icon = fallback
        ELSE \E i \in Hits : (\A j \in Hits : i <= j) /\ icon = icons[queries[i]]
    /\ pc = "done" => icon \in {GlyphX, GlyphY, GlyphZ}

\* candidates [A, B, C] with A and B both keys of different values
C5_Witness ==
    /\ pc = "alias" /\ Len(queries) = 3
    /\ queries[1] \in DOMAIN icons /\ queries[2] \in DOMAIN icons
    /\ icons[queries[1]] # icons[queries[2]]
    /\ icon = icons[queries[1]]

\* C6: alias resolution is one hop: the result is aliases[g] when the glyph g
\* obtained from the table or the fallback is a key of aliases, g otherwise,
\* and the function returns right after the substitution.
C6_OneHop ==
    [][ pc = "alias" =>
            /\ icon' = IF icon \in DOMAIN aliases THEN aliases[icon] ELSE icon
            /\ pc' = "done" ]_vars

\* icons[key] = X, aliases[X] = Y, aliases[Y] = Z: the result is Y
C6_Witness ==
    /\ pc = "done" /\ queries # <<>> /\ queries[1] \in DOMAIN icons
    /\ icons[queries[1]] = GlyphX
    /\ GlyphX \in DOMAIN aliases /\ aliases[GlyphX] = GlyphY
    /\ GlyphY \in DOMAIN aliases /\ aliases[GlyphY] = GlyphZ
    /\ icon = GlyphY

(***************************************************************************)
(* Properties of show_entries                                              *)
(***************************************************************************)
Lowered(words) == {to_lowercase(words[i]) : i \in 1..Len(words)}

Collected == pc \in {"sort", "render", "single_column", "display_in_columns",
                     "collapse", "rows", "done"}

Listed(p) == \E i \in 1..Len(entries) : entries[i] = p

TrailingDot(p) == p.name[Len(p.name)] = "."

\* the claim's test: basename or dotted extension in the list of the entry's kind
IgnoredByKind(p) ==
    LET words == IF p.metadata.is_dir THEN Lowered(config.ignore.folders)
                 ELSE Lowered(config.ignore.files)
    IN to_lowercase(p.name) \in words
           \/ (<<".">> \o to_lowercase(Extension(p.name))) \in words

\* C7 as stated, for the entries whose kind is known.
C7_Original ==
    Collected =>
        \A i \in 1..Len(paths) :
            (paths[i].metadata.ok /\ ~TrailingDot(paths[i])) =>
                (Listed(paths[i]) <=> (cmd.all \/ ~IgnoredByKind(paths[i])))

\* the test the filter applies
IgnoredByCode(p) ==
    LET base == to_lowercase(p.name)
        ext == <<".">> \o to_lowercase(Extension(p.name))
        fo == Lowered(config.ignore.folders)
        fi == Lowered(config.ignore.files)
    IN IF ~p.metadata.ok THEN base \in fi \/ ext \in fi \/ base \in fo
       ELSE IF p.metadata.is_dir THEN base \in fo
       ELSE base \in fi \/ ext \in fi

\* C7, amended: with show-all unset, a directory is removed exactly when its
\* lowercased basename is in the folders list (its extension is not looked at);
\* a file exactly when its lowercased basename or lowercased dotted extension is
\* in the files list; an entry without metadata exactly when its basename or
\* dotted extension is in the files list or its basename is in the folders list.
\* With show-all set the ignore lists remove nothing.  (A path ending in '.'
\* is dropped by a filter of its own.)
C7_IgnoreFilter ==
    Collected =>
        \A i \in 1..Len(paths) :
            ~TrailingDot(paths[i]) =>
                (Listed(paths[i]) <=> (cmd.all \/ ~IgnoredByCode(paths[i])))

\* a directory spelled Nm is removed by the folders entry NM, while a directory
\* whose extension alone is in the folders list stays
C7_Witness ==
    /\ pc = "sort" /\ ~cmd.all /\ Len(paths) = 2
    /\ paths[1].name = NameNm /\ paths[1].metadata.ok /\ paths[1].metadata.is_dir
    /\ paths[2].name = NameLog /\ paths[2].metadata.ok /\ paths[2].metadata.is_dir
    /\ config.ignore.folders # <<>>
    /\ ~Listed(paths[1]) /\ Listed(paths[2])

\* C8: the colour class is a fixed priority decision: no metadata gives
\* dead_link with the dead-link glyph and no size suffix, whatever the name; a
\* directory is hidden_dir with a leading '.', else dir; a file is
\* executable_file if executable, else hidden with a leading '.', else file.
C8_ColorClass ==
    /\ Len(calls) = Len(list)
    /\ \A i \in 1..Len(calls) :
        LET e == entries[i]
            dot == e.name[1] = "."
            exec == is_executable(e.metadata)
        IN IF ~e.metadata.ok
           THEN /\ Len(calls[i]) = 1
                /\ calls[i][1].name = "dead_link"
                /\ calls[i][1].message = <<" ", " ", "f481", " ">> \o e.name
           ELSE IF e.metadata.is_dir
           THEN /\ Len(calls[i]) = 1
                /\ calls[i][1].name = (IF dot THEN "hidden_dir" ELSE "dir")
           ELSE /\ Len(calls[i]) = 2
                /\ calls[i][2].name = "file_size"
                /\ calls[i][1].name = (IF exec THEN "executable_file"
                                       ELSE IF dot THEN "hidden" ELSE "file")

\* .h without metadata is a dead link, next to an executable file
C8_Witness ==
    /\ pc = "done" /\ Len(calls) = 2
    /\ entries[1].name = NameHidden /\ ~entries[1].metadata.ok
    /\ calls[1] = <<[message |-> <<" ", " ", "f481", " ", ".", "h">>, name |-> "dead_link"]>>
    /\ entries[2].metadata.ok /\ ~entries[2].metadata.is_dir
    /\ calls[2][1].name = "executable_file"

(***************************************************************************)
(* Properties of get_config                                                *)
(***************************************************************************)
\* the user's table t, empty when there is no user document or no such table
Override(t) ==
    IF config_file_exists /\ custom_config[t].ok THEN custom_config[t].value ELSE <<>>

\* C9: each of files, folders, colors and aliases is merged as a union: the
\* merged keys are the keys of both tables, an override key maps to the
\* override's value, a default key absent from the override keeps its value,
\* and no default key, "file" and "folder" included, is removed.
C9_MergeUnion ==
    pc = "configured" =>
        \A t \in {"files", "folders", "colors", "aliases"} :
            LET d == default_config[t]
                o == Override(t)
            IN /\ DOMAIN config[t] = (DOMAIN d) \cup (DOMAIN o)
               /\ \A k \in DOMAIN o : config[t][k] = o[k]
               /\ \A k \in (DOMAIN d) \ (DOMAIN o) : config[t][k] = d[k]
               /\ {KeyFile, KeyFolder} \subseteq DOMAIN config[t]

\* an override that replaces "file" and adds ".l", next to an absent table
C9_Witness ==
    /\ pc = "configured" /\ config_file_exists
    /\ KeyExt \notin DOMAIN default_config.files
    /\ custom_config.files.ok /\ DOMAIN custom_config.files.value = {KeyFile, KeyExt}
    /\ ~custom_config.folders.ok
    /\ config.files[KeyFile] = ValCustom /\ config.files[KeyExt] = ValCustom
    /\ config.files[KeyFolder] = ValDefault
    /\ config.folders = default_config.folders

====
